---- MODULE Spec2Model ----
(***************************************************************************)
(* Model of extrair_pdf.py: extraction of time-clock records from a PDF    *)
(* report, first through Docling's tables (extrair_com_docling), then      *)
(* through PyMuPDF's page text (extrair_com_pymupdf), sequenced by         *)
(* extrair_tabelas.                                                        *)
(*                                                                         *)
(* A Python str is a sequence of one-character strings; a regular          *)
(* expression of the source is an operator that computes what re computes  *)
(* for it (leftmost, non-overlapping matches).                             *)
(***************************************************************************)
EXTENDS Integers, Sequences, FiniteSets, TLC

VARIABLES
  DOCLING_AVAILABLE,  \* lines 19-24
  PYMUPDF_AVAILABLE,  \* lines 26-31
  existe,             \* os.path.exists(pdf_path)
  documento,          \* what Document.from_file(pdf_path) does and gives
  arquivo,            \* what fitz.open(pdf_path) and its pages do and give
  pc,                 \* the line control is at
  df,                 \* df of extrair_tabelas
  df_final,           \* df_final of extrair_com_docling
  tabela_i,           \* the table extrair_com_docling is at, from 1
  doc,                \* the handle of extrair_com_pymupdf
  textos,             \* the page texts read so far, line 169
  erro,               \* the exception being raised, if any
  chamadas,           \* the extractors called so far, in order
  retornos,           \* what each extractor called has returned, and the
                      \* exception it has turned into that, if any
  entrada,            \* the argument of the function under study
  saida               \* what the function has returned for it so far

programa ==
  <<DOCLING_AVAILABLE, PYMUPDF_AVAILABLE, existe, documento, arquivo, pc, df,
    df_final, tabela_i, doc, textos, erro, chamadas, retornos>>

vars == <<programa, entrada, saida>>

(***************************************************************************)
(* Characters and character classes of re (str patterns).                  *)
(***************************************************************************)
Maiusculas ==
  <<"A","B","C","D","E","F","G","H","I","J","K","L","M","N","O","P","Q","R",
    "S","T","U","V","W","X","Y","Z","Á","À","Ã","Â","É","È","Ê","Í","Ì","Ó",
    "Ò","Õ","Ô","Ú","Ù","Ç">>

Minusculas ==
  <<"a","b","c","d","e","f","g","h","i","j","k","l","m","n","o","p","q","r",
    "s","t","u","v","w","x","y","z","á","à","ã","â","é","è","ê","í","ì","ó",
    "ò","õ","ô","ú","ù","ç">>

Digitos == {"0","1","2","3","4","5","6","7","8","9"}

Espacos == {" ", "\t", "\n", "\r", "\f"}

\* the literal letters of the class [^\w\sÁÀÃÂÉÈÊÍÌÓÒÕÔÚÙÇ\-]
Acentuadas ==
  {"Á","À","Ã","Â","É","È","Ê","Í","Ì","Ó","Ò","Õ","Ô","Ú","Ù","Ç"}

Range(f) == {f[i] : i \in DOMAIN f}

\* \d
IsDigit(c) == c \in Digitos

\* \s
IsSpace(c) == c \in Espacos

\* the characters of \w
Palavra == Range(Maiusculas) \cup Range(Minusculas) \cup Digitos \cup {"_"}

\* \w
IsWord(c) == c \in Palavra

\* str.lower() of one character
LowerChar(c) ==
  IF c \in Range(Maiusculas)
    THEN Minusculas[CHOOSE i \in DOMAIN Maiusculas : Maiusculas[i] = c]
    ELSE c

\* str.lower()
Lower(s) == [i \in DOMAIN s |-> LowerChar(s[i])]

\* s[i:] with a 1-based i
Desde(s, i) == SubSeq(s, i, Len(s))

\* s[:i-1] with a 1-based i
Ate(s, i) == SubSeq(s, 1, i - 1)

\* the literal t occurs in s at position i
OcorreEm(s, t, i) ==
  /\ i + Len(t) - 1 <= Len(s)
  /\ \A k \in 1..Len(t) : s[i + k - 1] = t[k]

\* the same, under re.IGNORECASE
OcorreEmSemCaixa(s, t, i) ==
  /\ i + Len(t) - 1 <= Len(s)
  /\ \A k \in 1..Len(t) : LowerChar(s[i + k - 1]) = LowerChar(t[k])

\* t in s
Contem(s, t) == \E i \in 1..(Len(s) + 1) : OcorreEm(s, t, i)

\* the concatenation of the sequences f[lo], ..., f[hi]
RECURSIVE Concat(_, _, _)
Concat(f, lo, hi) ==
  IF lo > hi THEN <<>>
  ELSE IF lo = hi THEN f[lo]
  ELSE LET m == (lo + hi) \div 2
       IN  Concat(f, lo, m) \o Concat(f, m + 1, hi)

\* the concatenation of the sequences of a sequence
Junta(partes) == Concat(partes, 1, Len(partes))

Min(S) == CHOOSE x \in S : \A y \in S : x <= y

Max(S) == CHOOSE x \in S : \A y \in S : x >= y

\* re.sub(r'\s{2,}', ' ', s): every maximal run of two or more whitespace
\* characters becomes one space; a lone whitespace character is kept as it is
Colapsa(s) ==
  LET antes(i) == i > 1 /\ IsSpace(s[i - 1])
      depois(i) == i < Len(s) /\ IsSpace(s[i + 1])
      sai == [i \in DOMAIN s |->
                IF ~IsSpace(s[i]) THEN <<s[i]>>
                ELSE IF antes(i) THEN <<>>
                ELSE IF depois(i) THEN <<" ">>
                ELSE <<s[i]>>]
  IN  Concat(sai, 1, Len(s))

\* str.strip()
Strip(s) ==
  LET naoEsp == {i \in DOMAIN s : ~IsSpace(s[i])}
  IN  IF naoEsp = {} THEN <<>> ELSE SubSeq(s, Min(naoEsp), Max(naoEsp))

(***************************************************************************)
(* Name cleaning.                                                          *)
(***************************************************************************)
\* the alternatives of the group (Domingo|...|JORNADA INCOMPLETA), line 122
Anotacoes ==
  { <<"D","o","m","i","n","g","o">>,
    <<"S","á","b","a","d","o">>,
    <<"F","e","r","i","a","d","o">>,
    <<"F","o","l","g","a">>,
    <<"R","E","G","I","S","T","R","O"," ","A","U","S","E","N","T","E">>,
    <<"F","A","L","T","A"," ","I","N","J","U","S","T","I","F","I","C","A","D","A">>,
    <<"J","O","R","N","A","D","A"," ","I","N","C","O","M","P","L","E","T","A">> }

TodosEspacos(t, i, j) == \A k \in i..j : IsSpace(t[k])

TodosPalavra(t, i, j) == \A k \in i..j : IsWord(t[k])

\* t, a whole suffix of the text, is matched by
\* (\s+\w+)?\s+(Domingo|...)?\s*$ under re.IGNORECASE:
\* a characters of group 1, b of \s+, c of the annotation, the rest \s*
CasaCauda(t) ==
  /\ Len(t) >= 1
  /\ IsSpace(t[1])
  /\ \E a \in 0..Len(t) :
       /\ \/ a = 0
          \/ \E k \in 1..(a - 1) : TodosEspacos(t, 1, k) /\ TodosPalavra(t, k + 1, a)
       /\ \E b \in 1..(Len(t) - a) :
            /\ TodosEspacos(t, a + 1, a + b)
            /\ \E c \in {0} \cup {Len(x) : x \in Anotacoes} :
                 /\ a + b + c <= Len(t)
                 /\ \/ c = 0
                    \/ \E x \in Anotacoes :
                         Len(x) = c /\ OcorreEmSemCaixa(t, x, a + b + 1)
                 /\ TodosEspacos(t, a + b + c + 1, Len(t))

\* re.sub(r'(\s+\w+)?\s+(...)?\s*$', '', texto, flags=re.IGNORECASE): the
\* leftmost position where the pattern matches; the match runs to the end
RemoveCauda(s) ==
  LET casa == {i \in DOMAIN s : CasaCauda(Desde(s, i))}
  IN  IF casa = {} THEN s
      ELSE Ate(s, Min(casa))

\* [\n;:]
SeparadorNome(c) == c \in {"\n", ";", ":"}

\* [^\w\sÁÀÃÂÉÈÊÍÌÓÒÕÔÚÙÇ\-]
NaoPermitido(c) == ~(IsWord(c) \/ IsSpace(c) \/ c \in Acentuadas \/ c = "-")

\* re.sub(r'[\n;:]', ' ', texto), line 121
SubSeparador(s) == [i \in DOMAIN s |-> IF SeparadorNome(s[i]) THEN " " ELSE s[i]]

\* re.sub of the characters that are not allowed by ' ', lines 124 and 190
SubNaoPermitido(s) == [i \in DOMAIN s |-> IF NaoPermitido(s[i]) THEN " " ELSE s[i]]

\* limpar_nome of extrair_com_docling
limpar_nome(texto) ==
  LET t1 == SubSeparador(texto)
      t2 == Strip(RemoveCauda(t1))
      t3 == SubNaoPermitido(t2)
  IN  Strip(Colapsa(t3))

\* the cleaning of nome_cand in extrair_com_pymupdf, lines 189-191, from the
\* text before the first timestamp
limpar_nome_cand(bruto) ==
  LET n1 == Strip(bruto)
      n2 == SubNaoPermitido(n1)
  IN  Strip(Colapsa(n2))

(***************************************************************************)
(* The text of the pages and the records of extrair_com_pymupdf.           *)
(***************************************************************************)
\* the window before a date, line 183
Janela == 400

\* the timestamps kept for a record, line 184
MaxHoras == 5

\* '00:00:00', line 186
HoraZero == <<"0","0",":","0","0",":","0","0">>

\* \d{2}:\d{2}:\d{2} matches s at position i
CasaHora(s, i) ==
  /\ i >= 1
  /\ i + 7 <= Len(s)
  /\ \A k \in {0, 1, 3, 4, 6, 7} : IsDigit(s[i + k])
  /\ \A k \in {2, 5} : s[i + k] = ":"

\* \d{2}/\d{2}/\d{4} matches s at position i
CasaData(s, i) ==
  /\ i >= 1
  /\ i + 9 <= Len(s)
  /\ \A k \in {0, 1, 3, 4, 6, 7, 8, 9} : IsDigit(s[i + k])
  /\ \A k \in {2, 5} : s[i + k] = "/"

\* the starts of the leftmost non-overlapping matches of a pattern of a fixed
\* width, among the positions M where it matches, from position pos on
RECURSIVE NaoSobrepostos(_, _, _)
NaoSobrepostos(M, largura, pos) ==
  LET c == {i \in M : i >= pos}
  IN  IF c = {} THEN <<>>
      ELSE <<Min(c)>> \o NaoSobrepostos(M, largura, Min(c) + largura)

\* re.findall(r'\d{2}:\d{2}:\d{2}', s)
AchaHoras(s) ==
  LET ini == NaoSobrepostos({i \in DOMAIN s : CasaHora(s, i)}, 8, 1)
  IN  [k \in DOMAIN ini |-> SubSeq(s, ini[k], ini[k] + 7)]

\* the starts of re.finditer(r'\d{2}/\d{2}/\d{4}', s)
AchaDatas(s) == NaoSobrepostos({i \in DOMAIN s : CasaData(s, i)}, 10, 1)

\* "\n".join(textos)
JuntaLinhas(ts) ==
  Concat([k \in DOMAIN ts |-> IF k = 1 THEN ts[k] ELSE <<"\n">> \o ts[k]], 1, Len(ts))

\* text.replace("\t", " ")
TrocaTab(s) == [i \in DOMAIN s |-> IF s[i] = "\t" THEN " " ELSE s[i]]

\* re.sub(r'\n{2,}', '\n', text)
ColapsaLinhas(s) ==
  Concat([i \in DOMAIN s |->
            IF s[i] = "\n" /\ i > 1 /\ s[i - 1] = "\n" THEN <<>> ELSE <<s[i]>>],
         1, Len(s))

CabecalhoA ==
  <<"M","T"," ","P","A","R","T","I","C","I","P","A","Ç","Õ","E","S"," ","S",".","A">>

CabecalhoB ==
  <<"R","e","l","a","ç","ã","o"," ","d","e"," ","r","e","g","i","s","t","r","o",
    " ","n","o"," ","p","e","r","í","o","d","o"," ">>

\* re.sub(r'MT PARTICIPAÇÕES S\.A.*?Relação de registro no período .*?\n', '',
\*        text, flags=re.DOTALL): from the leftmost CabecalhoA, through the
\* nearest CabecalhoB after it, to the nearest newline after that
RECURSIVE RemoveCabecalhoDe(_, _)
RemoveCabecalhoDe(s, pos) ==
  LET as == {i \in pos..Len(s) : OcorreEm(s, CabecalhoA, i)}
      i  == Min(as)
      bs == {j \in (i + Len(CabecalhoA))..Len(s) : OcorreEm(s, CabecalhoB, j)}
      j  == Min(bs)
      ns == {k \in (j + Len(CabecalhoB))..Len(s) : s[k] = "\n"}
  IN  IF as = {} \/ bs = {} \/ ns = {} THEN SubSeq(s, pos, Len(s))
      ELSE SubSeq(s, pos, i - 1) \o RemoveCabecalhoDe(s, Min(ns) + 1)

RemoveCabecalho(s) == RemoveCabecalhoDe(s, 1)

TituloColunas ==
  <<"E","n","t","r",".","M","a","n","h","a"," ","S","a","í","d",".","M","a","n",
    "h","a"," ","E","n","t","r",".","T","a","r","d","e"," ","S","a","i","d",".",
    "T","a","r","d","e"," ","T","o","t","a","l","N","o","m","e"," ","D","a","t",
    "a">>

\* re.sub(r'Entr\.Manha ... TotalNome Data', '', text, flags=re.IGNORECASE)
RemoveTitulo(s) ==
  LET n   == Len(TituloColunas)
      m   == {i \in DOMAIN s : OcorreEmSemCaixa(s, TituloColunas, i)}
      ini == NaoSobrepostos(m, n, 1)
      fora(i) == \E k \in DOMAIN ini : ini[k] <= i /\ i < ini[k] + n
  IN  Concat([i \in DOMAIN s |-> IF fora(i) THEN <<>> ELSE <<s[i]>>], 1, Len(s))

\* lines 172-178: the text the records are read from
TextoLimpo(ts) ==
  RemoveTitulo(RemoveCabecalho(ColapsaLinhas(TrocaTab(JuntaLinhas(ts)))))

\* the first 5 timestamps found instead of the last 5
PrimeirasHoras(achadas) ==
  IF Len(achadas) <= 5 THEN achadas ELSE SubSeq(achadas, 1, 5)

\* times = re.findall(...)[-5:], line 184
UltimasHoras(achadas) ==
  IF Len(achadas) <= MaxHoras THEN achadas
  ELSE SubSeq(achadas, Len(achadas) - MaxHoras + 1, Len(achadas))

\* while len(times) < 5: times.append('00:00:00'), lines 185-186
CompletaHoras(times) ==
  times \o [k \in 1..(MaxHoras - Len(times)) |-> HoraZero]

\* text[max(0, m.start() - 400):m.end()], line 183, for the match at i
Trecho(text, i) == SubSeq(text, Max({1, i - Janela}), i + 9)

\* lines 188-191
NomeCand(snippet) ==
  LET hs == {i \in DOMAIN snippet : CasaHora(snippet, i)}
  IN  limpar_nome_cand(IF hs = {} THEN snippet ELSE Ate(snippet, Min(hs)))

\* the record of the date matched at i, lines 182-201, its values in the
\* order of COLUNAS_NOMES
Registro(text, i) ==
  LET snippet == Trecho(text, i)
      times   == CompletaHoras(UltimasHoras(AchaHoras(snippet)))
  IN  <<NomeCand(snippet), SubSeq(text, i, i + 9)>> \o times

\* lines 180-201
Registros(text) ==
  LET ds == AchaDatas(text)
  IN  [k \in DOMAIN ds |-> Registro(text, ds[k])]

(***************************************************************************)
(* Cells, rows and DataFrames of extrair_com_docling.                      *)
(***************************************************************************)
\* a str cell
Cel(v) == [tipo |-> "str", v |-> v]

\* np.nan, the null sentinel
NaN == [tipo |-> "nan", v |-> <<>>]

\* a cell that is no text and whose str() raises
Obj == [tipo |-> "obj", v |-> <<>>]

\* str(item), for a cell whose str() returns
Str(c) == IF c.tipo = "str" THEN c.v ELSE <<"n","a","n">>

\* an integer column label, a text column label
RotInt(n) == [tipo |-> "int", n |-> n, s |-> ""]

RotTxt(t) == [tipo |-> "str", n |-> 0, s |-> t]

COLUNAS_NOMES ==
  <<"Nome", "Data", "Entr.Manha", "Saíd.Manha", "Entr.Tarde", "Said.Tarde", "Total">>

NUM_COLUNAS_ESPERADO == Len(COLUNAS_NOMES)

\* the position of a column of COLUNAS_NOMES
Coluna(nome) == CHOOSE j \in DOMAIN COLUNAS_NOMES : COLUNAS_NOMES[j] = nome

None == [tipo |-> "None", columns |-> <<>>, rows |-> <<>>]

DataFrame(columns, rows) == [tipo |-> "DataFrame", columns |-> columns, rows |-> rows]

\* df.empty
Empty(d) == Len(d.rows) = 0 \/ Len(d.columns) = 0

\* tabela.to_pandas(fill_na=True) of table t, when it returns: the rows
\* indexed from 0, each remembering the table and row it comes from
ToPandas(tabela, t) ==
  DataFrame(tabela.columns,
            [r \in DOMAIN tabela.rows |->
               [idx |-> r - 1, origem |-> <<t, r>>, cels |-> tabela.rows[r]]])

\* keywords_to_check, lines 75-79
keywords_to_check ==
  << <<"n","o","m","e">>,
     <<"d","a","t","a">>,
     <<"e","n","t","r",".","m","a","n","h","a">>,
     <<"g","o","v","e","r","n","o">>,
     <<"i","n","s","t","i","t","u","i","ç","ã","o">>,
     <<"p","á","g","i","n","a">>,
     <<"e","m","i","s","s","ã","o">>,
     <<"e","s","t","a","d","o"," ","d","e"," ","m","a","t","o"," ","g","r","o","s","s","o">>,
     <<"r","e","l","a","ç","ã","o"," ","d","e"," ","r","e","g","i","s","t","r","o">>,
     <<"s","a","i","d",".","m","a","n","h","a">>,
     <<"e","n","t","r",".","t","a","r","d","e">>,
     <<"t","o","t","a","l","n","o","m","e">> >>

\* line 83 on str(item) as it is, without lower()
TemKeywordSemLower(item) ==
  \E k \in DOMAIN keywords_to_check : Contem(Str(item), keywords_to_check[k])

\* any(keyword in item_str for keyword in keywords_to_check), line 83
TemKeyword(item) ==
  LET item_str == Lower(Str(item))
  IN  \E k \in DOMAIN keywords_to_check : Contem(item_str, keywords_to_check[k])

\* row_contains_keywords, lines 73-87: the items are visited in order; the
\* first whose str() raises, or that holds a keyword, makes the row noise
row_contains_keywords(row) ==
  LET para == {j \in DOMAIN row : row[j].tipo = "obj" \/ TemKeyword(row[j])}
  IN  IF para = {} THEN FALSE
      ELSE IF row[Min(para)].tipo = "obj" THEN TRUE   \* except Exception
      ELSE TRUE                                       \* a keyword is found

\* df[rotulo] = valor: the columns that carry the label are overwritten,
\* and when none does a column is added at the end
Atribui(d, rotulo, valor) ==
  IF \E j \in DOMAIN d.columns : d.columns[j] = rotulo
    THEN DataFrame(d.columns,
           [r \in DOMAIN d.rows |->
              [d.rows[r] EXCEPT !.cels =
                 [j \in DOMAIN d.columns |->
                    IF d.columns[j] = rotulo THEN valor ELSE d.rows[r].cels[j]]]])
    ELSE DataFrame(Append(d.columns, rotulo),
           [r \in DOMAIN d.rows |->
              [d.rows[r] EXCEPT !.cels = Append(d.rows[r].cels, valor)]])

\* for _ in range(n): df_tabela[len(df_tabela.columns)] = np.nan, lines 103-104
RECURSIVE Preenche(_, _)
Preenche(d, n) ==
  IF n <= 0 THEN d ELSE Preenche(Atribui(d, RotInt(Len(d.columns)), NaN), n - 1)

\* lines 100-104
AjustaLargura(d) ==
  IF Len(d.columns) > NUM_COLUNAS_ESPERADO
    THEN DataFrame(SubSeq(d.columns, 1, NUM_COLUNAS_ESPERADO),
           [r \in DOMAIN d.rows |->
              [d.rows[r] EXCEPT !.cels = SubSeq(d.rows[r].cels, 1, NUM_COLUNAS_ESPERADO)]])
  ELSE IF Len(d.columns) < NUM_COLUNAS_ESPERADO
    THEN Preenche(d, NUM_COLUNAS_ESPERADO - Len(d.columns))
  ELSE d

\* df.columns = novos raises ValueError unless the lengths agree
PodeRenomear(d, novos) == Len(d.columns) = Len(novos)

Renomeia(d, novos) == DataFrame(novos, d.rows)

\* range(NUM_COLUNAS_ESPERADO), line 106
RotulosInteiros == [j \in 1..NUM_COLUNAS_ESPERADO |-> RotInt(j - 1)]

\* COLUNAS_NOMES as labels, line 115
RotulosNomes == [j \in DOMAIN COLUNAS_NOMES |-> RotTxt(COLUNAS_NOMES[j])]

\* df_tabela[~df_tabela.apply(row_contains_keywords, axis=1)], line 107
FiltraLinhas(d) ==
  DataFrame(d.columns, SelectSeq(d.rows, LAMBDA r : ~row_contains_keywords(r.cels)))

\* pd.concat([a, b], ignore_index=True), line 109, of frames whose columns
\* agree or of which one has none
Concatena(a, b) ==
  LET rows == a.rows \o b.rows
  IN  DataFrame(IF Len(a.columns) = 0 THEN b.columns ELSE a.columns,
                [r \in DOMAIN rows |-> [rows[r] EXCEPT !.idx = r - 1]])

\* re.sub(lit, '', s) for a literal: its leftmost non-overlapping
\* occurrences are removed
RemoveLiteral(s, lit) ==
  LET ini == NaoSobrepostos({i \in DOMAIN s : OcorreEm(s, lit, i)}, Len(lit), 1)
      fora(i) == \E k \in DOMAIN ini : ini[k] <= i /\ i < ini[k] + Len(lit)
  IN  Concat([i \in DOMAIN s |-> IF fora(i) THEN <<>> ELSE <<s[i]>>], 1, Len(s))

\* .replace(r'^\s*$', '', regex=True).replace(['nan', 'None'], '', regex=True)
\* on one cell, line 116: only str cells are touched
SubstituiCelula(c) ==
  IF c.tipo # "str" THEN c
  ELSE LET v1 == IF \A i \in DOMAIN c.v : IsSpace(c.v[i]) THEN <<>> ELSE c.v
       IN  Cel(RemoveLiteral(RemoveLiteral(v1, <<"n","a","n">>), <<"N","o","n","e">>))

\* the alternatives of the pattern of limpar_ruidos, line 132
Ruidos ==
  { <<"M","T"," ","P","A","R","T","I","C","I","P","A","Ç","Õ","E","S"," ","S",".","A">>,
    <<"P","A","R","Q","U","E"," ","N","O","V","O"," ","M","T">>,
    <<"I","n","s","t","i","t","u","i","ç","ã","o">>,
    <<"G","o","v","e","r","n","o">>,
    <<"P","á","g","i","n","a">>,
    <<"E","m","i","s","s","ã","o">>,
    <<"E","s","t","a","d","o"," ","d","e"," ","M","a","t","o"," ","G","r","o","s","s","o">> }

\* limpar_ruidos, lines 130-133: from each alternative found to the end of
\* its line ('.' matches no newline), then the whitespace
limpar_ruidos(texto) ==
  LET ini == {i \in DOMAIN texto : \E x \in Ruidos : OcorreEm(texto, x, i)}
      fora(i) == \E j \in ini : j <= i /\ \A k \in j..i : texto[k] # "\n"
  IN  Strip(Colapsa(Concat([i \in DOMAIN texto |->
                              IF fora(i) THEN <<>> ELSE <<texto[i]>>], 1, Len(texto))))

\* Series.str.match(r'\d{2}/\d{2}/\d{4}', na=False) on one cell, line 139:
\* re.match, which anchors the pattern at the start only
DataCasa(c) == c.tipo = "str" /\ CasaData(c.v, 1)

\* lines 115-140, when nothing raises
LimpaFinal(d) ==
  LET d1 == Renomeia(d, RotulosNomes)
      d2 == [r \in DOMAIN d1.rows |->
               [d1.rows[r] EXCEPT !.cels = [j \in DOMAIN @ |-> SubstituiCelula(@[j])]]]
      d3 == [r \in DOMAIN d2 |->
               [d2[r] EXCEPT !.cels[Coluna("Nome")] = Cel(limpar_nome(Str(@)))]]
      d4 == [r \in DOMAIN d3 |->
               [d3[r] EXCEPT !.cels = [j \in DOMAIN @ |-> Cel(limpar_ruidos(Str(@[j])))]]]
      d5 == SelectSeq(d4, LAMBDA r : DataCasa(r.cels[Coluna("Data")]))
  IN  DataFrame(d1.columns, [r \in DOMAIN d5 |-> [d5[r] EXCEPT !.idx = r - 1]])

\* a str() of lines 120 or 131 raises
LimpezaFalha(d) ==
  \E r \in DOMAIN d.rows : \E j \in DOMAIN d.rows[r].cels : d.rows[r].cels[j].tipo = "obj"

(***************************************************************************)
(* extrair_com_pymupdf's frame, lines 203-212.                             *)
(***************************************************************************)
\* df.replace(r'^\s*$', '', regex=True), line 208, on one cell
SubstituiVazio(v) == IF \A k \in DOMAIN v : IsSpace(v[k]) THEN <<>> ELSE v

\* lines 207-209
FrameRegistros(registros) ==
  DataFrame(RotulosNomes,
    [k \in DOMAIN registros |->
       [idx    |-> k - 1,
        origem |-> <<0, k>>,
        cels   |-> [j \in DOMAIN registros[k] |->
                      IF j = Coluna("Nome")
                        THEN Cel(Strip(Colapsa(SubstituiVazio(registros[k][j]))))
                        ELSE Cel(SubstituiVazio(registros[k][j]))]]])

(***************************************************************************)
(* The documents the program is run on.                                    *)
(***************************************************************************)
MaxTabelas == 2

MaxPaginas == 2

SeqAte(S, n) == UNION {[1..k -> S] : k \in 0..n}

H08 == Cel(<<"0","8",":","0","0",":","0","0">>)
H12 == Cel(<<"1","2",":","0","0",":","0","0">>)
H13 == Cel(<<"1","3",":","0","0",":","0","0">>)
H18 == Cel(<<"1","8",":","0","0",":","0","0">>)

LinhaTitulo ==
  <<Cel(<<"N","o","m","e">>), Cel(<<"D","a","t","a">>),
    Cel(<<"E","n","t","r",".","M","a","n","h","a">>),
    Cel(<<"S","a","í","d",".","M","a","n","h","a">>),
    Cel(<<"E","n","t","r",".","T","a","r","d","e">>),
    Cel(<<"S","a","i","d",".","T","a","r","d","e">>),
    Cel(<<"T","o","t","a","l">>)>>

LinhaRodape == <<Cel(<<"P","á","g","i","n","a"," ","1">>), NaN, NaN, NaN, NaN, NaN, NaN>>

LinhaAna == <<Cel(<<"A","n","a">>), Cel(<<"0","1","/","0","3","/","2","0","2","4">>),
              H08, H12, H13, H18, H08>>

LinhaRui == <<Cel(<<"R","u","i">>), Cel(<<"0","2","/","0","3","/","2","0","2","4">>),
              H08, H12, H13, H18, H08>>

LinhaLia == <<Cel(<<"L","i","a">>), Cel(<<"0","3","/","0","3","/","2","0","2","4">>),
              H08, H12, H13, H18, H08>>

\* a day off: the day type has slipped into the date column
LinhaFolga ==
  <<Cel(<<"A","n","a">>),
    Cel(<<"0","3","/","0","3","/","2","0","2","4"," ","F","o","l","g","a">>),
    NaN, NaN, NaN, NaN, NaN>>

\* one table with 2 header/footer rows and 3 valid data rows
TabelaExemplo ==
  [converte |-> TRUE,
   columns  |-> [j \in 1..7 |-> RotInt(j - 1)],
   rows     |-> <<LinhaTitulo, LinhaAna, LinhaRui, LinhaLia, LinhaRodape>>]

\* 9 columns, labelled by the texts of the header
TabelaLarga ==
  [converte |-> TRUE,
   columns  |-> [j \in 1..7 |-> RotTxt(COLUNAS_NOMES[j])] \o <<RotTxt("Obs"), RotTxt("Visto")>>,
   rows     |-> <<LinhaRui \o <<Cel(<<"O","b","s">>), NaN>>,
                  LinhaFolga \o <<NaN, NaN>>>>]

\* 5 columns, labelled 0..4; its only row has no date
TabelaCurta ==
  [converte |-> TRUE,
   columns  |-> [j \in 1..5 |-> RotInt(j - 1)],
   rows     |-> <<<<Cel(<<"L","i","a">>), Cel(<<>>), H08, H12, H08>>>>]

\* 5 columns, labelled 1..5
TabelaRotulos ==
  [converte |-> TRUE,
   columns  |-> [j \in 1..5 |-> RotInt(j)],
   rows     |-> <<SubSeq(LinhaAna, 1, 5)>>]

\* a table whose to_pandas raises
TabelaFalha == [converte |-> FALSE, columns |-> <<>>, rows |-> <<>>]

TabelasDoc == {TabelaExemplo, TabelaLarga, TabelaCurta, TabelaRotulos, TabelaFalha}

\* Document.from_file raises
DocumentoFalha == [abre |-> FALSE, tables |-> <<>>]

Documentos ==
  {DocumentoFalha} \cup {[abre |-> TRUE, tables |-> t] : t \in SeqAte(TabelasDoc, MaxTabelas)}

PaginaRegistro ==
  [le |-> TRUE, texto |->
   <<"A","n","a"," ","L","i","m","a"," ","0","8",":","0","0",":","0","0"," ",
     "1","2",":","0","0",":","0","0"," ","1","3",":","0","0",":","0","0"," ",
     "1","8",":","0","0",":","0","0"," ","0","8",":","0","0",":","0","0"," ",
     "0","1","/","0","3","/","2","0","2","4","\n">>]

PaginaTitulo ==
  [le |-> TRUE, texto |-> TituloColunas \o <<"\n">>]

\* a page whose get_text raises
PaginaFalha == [le |-> FALSE, texto |-> <<>>]

PaginasDoc == {PaginaRegistro, PaginaTitulo, PaginaFalha}

\* fitz.open raises
ArquivoFalha == [abre |-> FALSE, paginas |-> <<>>]

Arquivos ==
  {ArquivoFalha} \cup {[abre |-> TRUE, paginas |-> p] : p \in SeqAte(PaginasDoc, MaxPaginas)}

(***************************************************************************)
(* extrair_tabelas, extrair_com_docling and extrair_com_pymupdf, step by   *)
(* step. A document that no extractor can come to open is not told apart   *)
(* from one whose opening fails.                                           *)
(***************************************************************************)
SemFuncao == entrada = <<>> /\ saida = <<>>

Init ==
  /\ DOCLING_AVAILABLE \in BOOLEAN
  /\ PYMUPDF_AVAILABLE \in BOOLEAN
  /\ existe \in BOOLEAN
  /\ documento \in IF DOCLING_AVAILABLE /\ existe THEN Documentos ELSE {DocumentoFalha}
  /\ arquivo \in IF PYMUPDF_AVAILABLE /\ existe THEN Arquivos ELSE {ArquivoFalha}
  /\ pc = "linha_224"
  /\ df = None
  /\ df_final = None
  /\ tabela_i = 0
  /\ doc = "nenhum"
  /\ textos = <<>>
  /\ erro = "nenhum"
  /\ chamadas = <<>>
  /\ retornos = <<>>
  /\ SemFuncao

entradas == <<DOCLING_AVAILABLE, PYMUPDF_AVAILABLE, existe, documento, arquivo>>

\* a handler that catches ValueError only
CapturaSoValueError(e) == e = "ValueError"

\* except Exception, lines 145 and 214: the exceptions the handler catches
Captura(e) == TRUE

\* an extractor returns valor to line 224 or 227
Retorna(de, valor, para) ==
  /\ df' = valor
  /\ retornos' = Append(retornos, [de |-> de, valor |-> valor, erro |-> erro])
  /\ pc' = para

\* line 224
Linha224 ==
  /\ pc = "linha_224"
  /\ IF DOCLING_AVAILABLE
       THEN /\ pc' = "docling_55"
            /\ chamadas' = Append(chamadas, "docling")
            /\ df' = df
       ELSE /\ pc' = "linha_225"
            /\ df' = None
            /\ chamadas' = chamadas
  /\ UNCHANGED <<entradas, df_final, tabela_i, doc, textos, erro, retornos, entrada, saida>>

\* lines 55-61
DoclingGuardas ==
  /\ pc = "docling_55"
  /\ IF ~DOCLING_AVAILABLE \/ ~existe
       THEN Retorna("docling", None, "linha_225")
       ELSE pc' = "docling_65" /\ UNCHANGED <<df, retornos>>
  /\ UNCHANGED <<entradas, df_final, tabela_i, doc, textos, erro, chamadas, entrada, saida>>

\* lines 63-71
DoclingFromFile ==
  /\ pc = "docling_65"
  /\ IF ~documento.abre
       THEN /\ erro' = "RuntimeError"
            /\ pc' = "docling_145"
            /\ UNCHANGED <<df, retornos, df_final, tabela_i>>
       ELSE IF documento.tables = <<>>
         THEN /\ Retorna("docling", None, "linha_225")
              /\ UNCHANGED <<erro, df_final, tabela_i>>
         ELSE /\ df_final' = DataFrame(<<>>, <<>>)
              /\ tabela_i' = 1
              /\ pc' = "docling_89"
              /\ UNCHANGED <<erro, df, retornos>>
  /\ UNCHANGED <<entradas, doc, textos, chamadas, entrada, saida>>

\* lines 89-109, for one table
DoclingTabela ==
  /\ pc = "docling_89"
  /\ tabela_i <= Len(documento.tables)
  /\ LET tabela    == documento.tables[tabela_i]
         df_tabela == ToPandas(tabela, tabela_i)
         larga     == AjustaLargura(df_tabela)
     IN  IF ~tabela.converte \/ Empty(df_tabela)
           THEN /\ tabela_i' = tabela_i + 1
                /\ UNCHANGED <<pc, erro, df_final>>
           ELSE IF ~PodeRenomear(larga, RotulosInteiros)
             THEN /\ erro' = "ValueError"
                  /\ pc' = "docling_145"
                  /\ UNCHANGED <<tabela_i, df_final>>
             ELSE /\ df_final' =
                       Concatena(df_final, FiltraLinhas(Renomeia(larga, RotulosInteiros)))
                  /\ tabela_i' = tabela_i + 1
                  /\ UNCHANGED <<pc, erro>>
  /\ UNCHANGED <<entradas, df, doc, textos, chamadas, retornos, entrada, saida>>

\* lines 111-143
DoclingLimpa ==
  /\ pc = "docling_89"
  /\ tabela_i > Len(documento.tables)
  /\ IF Empty(df_final)
       THEN Retorna("docling", None, "linha_225") /\ erro' = erro
       ELSE IF LimpezaFalha(df_final)
         THEN erro' = "TypeError" /\ pc' = "docling_145" /\ UNCHANGED <<df, retornos>>
         ELSE Retorna("docling", LimpaFinal(df_final), "linha_225") /\ erro' = erro
  /\ UNCHANGED <<entradas, df_final, tabela_i, doc, textos, chamadas, entrada, saida>>

\* lines 145-147
DoclingExcept ==
  /\ pc = "docling_145"
  /\ IF Captura(erro)
       THEN Retorna("docling", None, "linha_225") /\ erro' = "nenhum"
       ELSE pc' = "excecao" /\ UNCHANGED <<df, retornos, erro>>
  /\ UNCHANGED <<entradas, df_final, tabela_i, doc, textos, chamadas, entrada, saida>>

\* the test of line 225 without df.empty
PedeFallbackSoNone(d) == d = None

\* if df is None or df.empty, line 225
PedeFallback(d) == d = None \/ Empty(d)

\* lines 225-227
Linha225 ==
  /\ pc = "linha_225"
  /\ IF PedeFallback(df)
       THEN pc' = "pymupdf_158" /\ chamadas' = Append(chamadas, "pymupdf")
       ELSE pc' = "linha_228" /\ chamadas' = chamadas
  /\ UNCHANGED <<entradas, df, df_final, tabela_i, doc, textos, erro, retornos, entrada, saida>>

\* lines 158-164
PymupdfGuardas ==
  /\ pc = "pymupdf_158"
  /\ IF ~PYMUPDF_AVAILABLE \/ ~existe
       THEN Retorna("pymupdf", None, "linha_228")
       ELSE pc' = "pymupdf_168" /\ UNCHANGED <<df, retornos>>
  /\ UNCHANGED <<entradas, df_final, tabela_i, doc, textos, erro, chamadas, entrada, saida>>

\* line 168
PymupdfOpen ==
  /\ pc = "pymupdf_168"
  /\ IF ~arquivo.abre
       THEN erro' = "RuntimeError" /\ pc' = "pymupdf_214" /\ UNCHANGED <<doc, textos>>
       ELSE doc' = "aberto" /\ textos' = <<>> /\ pc' = "pymupdf_169" /\ erro' = erro
  /\ UNCHANGED <<entradas, df, df_final, tabela_i, chamadas, retornos, entrada, saida>>

\* line 169, for one page
PymupdfGetText ==
  /\ pc = "pymupdf_169"
  /\ Len(textos) < Len(arquivo.paginas)
  /\ LET page == arquivo.paginas[Len(textos) + 1]
     IN  IF ~page.le
           THEN erro' = "RuntimeError" /\ pc' = "pymupdf_214" /\ textos' = textos
           ELSE textos' = Append(textos, page.texto) /\ UNCHANGED <<pc, erro>>
  /\ UNCHANGED <<entradas, df, df_final, tabela_i, doc, chamadas, retornos, entrada, saida>>

\* line 170
PymupdfClose ==
  /\ pc = "pymupdf_169"
  /\ Len(textos) = Len(arquivo.paginas)
  /\ doc' = "fechado"
  /\ pc' = "pymupdf_172"
  /\ UNCHANGED <<entradas, df, df_final, tabela_i, textos, erro, chamadas, retornos, entrada, saida>>

\* lines 172-212
PymupdfRegistros ==
  /\ pc = "pymupdf_172"
  /\ LET registros == Registros(TextoLimpo(textos))
     IN  IF registros = <<>>
           THEN Retorna("pymupdf", None, "linha_228")
           ELSE Retorna("pymupdf", FrameRegistros(registros), "linha_228")
  /\ UNCHANGED <<entradas, df_final, tabela_i, doc, textos, erro, chamadas, entrada, saida>>

\* lines 214-216
PymupdfExcept ==
  /\ pc = "pymupdf_214"
  /\ IF Captura(erro)
       THEN Retorna("pymupdf", None, "linha_228") /\ erro' = "nenhum"
       ELSE pc' = "excecao" /\ UNCHANGED <<df, retornos, erro>>
  /\ UNCHANGED <<entradas, df_final, tabela_i, doc, textos, chamadas, entrada, saida>>

\* return df, line 228
Linha228 ==
  /\ pc = "linha_228"
  /\ pc' = "fim"
  /\ UNCHANGED <<entradas, df, df_final, tabela_i, doc, textos, erro, chamadas, retornos,
                 entrada, saida>>

Next ==
  \/ Linha224
  \/ DoclingGuardas
  \/ DoclingFromFile
  \/ DoclingTabela
  \/ DoclingLimpa
  \/ DoclingExcept
  \/ Linha225
  \/ PymupdfGuardas
  \/ PymupdfOpen
  \/ PymupdfGetText
  \/ PymupdfClose
  \/ PymupdfRegistros
  \/ PymupdfExcept
  \/ Linha228

Spec == Init /\ [][Next]_vars

\* the program is not being run: a function of it is studied on its own
Parado ==
  /\ DOCLING_AVAILABLE = FALSE
  /\ PYMUPDF_AVAILABLE = FALSE
  /\ existe = FALSE
  /\ documento = DocumentoFalha
  /\ arquivo = ArquivoFalha
  /\ pc = "fim"
  /\ df = None
  /\ df_final = None
  /\ tabela_i = 0
  /\ doc = "nenhum"
  /\ textos = <<>>
  /\ erro = "nenhum"
  /\ chamadas = <<>>
  /\ retornos = <<>>

(***************************************************************************)
(* Claims about the program.                                               *)
(***************************************************************************)
Chamou(de) == \E k \in DOMAIN chamadas : chamadas[k] = de

Retornou(de) == \E k \in DOMAIN retornos : retornos[k].de = de

ValorDe(de) == retornos[CHOOSE k \in DOMAIN retornos : retornos[k].de = de].valor

Decidido == pc \in {"linha_228", "fim"} \/ Chamou("pymupdf")

\* the structured attempt was skipped, returned None, or returned no row
EstruturadoSemLinhas ==
  \/ ~DOCLING_AVAILABLE /\ pc # "linha_224"
  \/ Retornou("docling") /\ (ValorDe("docling") = None \/ Len(ValorDe("docling").rows) = 0)

\* C1: extrair_com_docling is called first and only when Docling is
\* available; extrair_com_pymupdf is called exactly when the structured
\* attempt was skipped, returned None or returned no row; a structured result
\* with a row is returned as it is without the fallback; no None or empty
\* result is returned while the fallback has not been tried
C1_Fallback ==
  /\ chamadas \in {<<>>, <<"docling">>, <<"pymupdf">>, <<"docling", "pymupdf">>}
  /\ Chamou("docling") <=> (DOCLING_AVAILABLE /\ pc # "linha_224")
  /\ Chamou("pymupdf") => EstruturadoSemLinhas
  /\ (pc \in {"linha_228", "fim"} /\ EstruturadoSemLinhas) => Chamou("pymupdf")
  /\ (pc = "fim" /\ ~EstruturadoSemLinhas) => df = ValorDe("docling") /\ ~Chamou("pymupdf")
  /\ (pc = "fim" /\ ~Chamou("pymupdf")) => df # None /\ Len(df.rows) >= 1

\* the structured attempt returned a frame without rows, and the fallback
\* was called and gave the result
C1_Witness ==
  /\ pc = "fim"
  /\ Retornou("docling")
  /\ ValorDe("docling") # None
  /\ Len(ValorDe("docling").rows) = 0
  /\ chamadas = <<"docling", "pymupdf">>
  /\ df = ValorDe("pymupdf")
  /\ df # None

\* the whole cell is \d{2}/\d{2}/\d{4}
DataExata(c) == c.tipo = "str" /\ Len(c.v) = 10 /\ CasaData(c.v, 1)

\* C2: in every RecordSet an extractor returns, the Data of every record is
\* DD/MM/YYYY exactly, with nothing before or after
C2_DataExata ==
  \A k \in DOMAIN retornos :
    \A r \in DOMAIN retornos[k].valor.rows :
      DataExata(retornos[k].valor.rows[r].cels[Coluna("Data")])

\* the part of C2 that is the fallback extractor's
C2_DataExataPymupdf ==
  \A k \in DOMAIN retornos :
    retornos[k].de = "pymupdf" =>
      \A r \in DOMAIN retornos[k].valor.rows :
        DataExata(retornos[k].valor.rows[r].cels[Coluna("Data")])

\* C3: no fault leaves an extraction attempt: each extractor returns None or
\* a RecordSet whatever its collaborators do, and extrair_tabelas never
\* raises
C3_NadaEscapa ==
  /\ pc # "excecao"
  /\ \A k \in DOMAIN retornos : retornos[k].valor.tipo \in {"None", "DataFrame"}
  /\ \A k \in DOMAIN retornos : retornos[k].erro # "nenhum" => retornos[k].valor = None
  /\ pc = "fim" => erro = "nenhum"

\* both attempts have failed inside, and extrair_tabelas has returned None
C3_Witness ==
  /\ pc = "fim"
  /\ df = None
  /\ \E k \in DOMAIN retornos : retornos[k].de = "docling" /\ retornos[k].erro = "ValueError"
  /\ \E k \in DOMAIN retornos : retornos[k].de = "pymupdf" /\ retornos[k].erro = "RuntimeError"

\* C4: the handle fitz.open has opened is closed before control is back in
\* extrair_tabelas, on every path
C4_HandleFechado == pc \in {"linha_228", "fim"} => doc # "aberto"

\* the rows of the tables that are no noise and whose cleaned date is a
\* whole DD/MM/YYYY (exata) or begins with one, by table and then by row
LinhasEsperadas(exata) ==
  LET limpa(c) == Cel(limpar_ruidos(Str(SubstituiCelula(c))))
      boas(t)  ==
        IF ~documento.tables[t].converte THEN <<>>
        ELSE SelectSeq(AjustaLargura(ToPandas(documento.tables[t], t)).rows,
               LAMBDA r : /\ \A j \in DOMAIN r.cels :
                               r.cels[j].tipo # "obj" /\ ~TemKeyword(r.cels[j])
                          /\ IF exata THEN DataExata(limpa(r.cels[Coluna("Data")]))
                                   ELSE DataCasa(limpa(r.cels[Coluna("Data")])))
  IN  Concat([t \in DOMAIN documento.tables |->
                [r \in DOMAIN boas(t) |-> boas(t)[r].origem]],
             1, Len(documento.tables))

Origens(d) == [r \in DOMAIN d.rows |-> d.rows[r].origem]

Indices(d) == [r \in DOMAIN d.rows |-> d.rows[r].idx]

\* C9: the RecordSet of the structured extractor holds exactly the rows of
\* the tables that the Row Filter keeps and whose date is a valid
\* DD/MM/YYYY, in table and then row order, indexed contiguously
C9_LinhasExatas ==
  \A k \in DOMAIN retornos :
    (retornos[k].de = "docling" /\ retornos[k].valor # None) =>
      /\ Origens(retornos[k].valor) = LinhasEsperadas(TRUE)
      /\ Indices(retornos[k].valor) = [r \in DOMAIN retornos[k].valor.rows |-> r - 1]

\* what holds of the rows: the same, for the dates that begin with
\* DD/MM/YYYY
C9_LinhasPrefixo ==
  \A k \in DOMAIN retornos :
    (retornos[k].de = "docling" /\ retornos[k].valor # None) =>
      /\ Origens(retornos[k].valor) = LinhasEsperadas(FALSE)
      /\ Indices(retornos[k].valor) = [r \in DOMAIN retornos[k].valor.rows |-> r - 1]

(***************************************************************************)
(* Width normalization as a function: lines 99-106 on every table of at    *)
(* most MaxColunas columns and MaxLinhas rows, labelled by consecutive     *)
(* integers from 0 to MaxInicio on, or by texts.                           *)
(***************************************************************************)
MaxColunas == 9

MaxLinhas == 2

MaxInicio == 3

Letras == <<"a","b","c","d","e","f","g","h","i","j","k","l","m","n","o","p">>

\* the cell of row r and column j: no two cells of a table are equal
CelulaDe(r, j) == Cel(<<Letras[r], Letras[j]>>)

TabelaDe(w, n, rotulos) ==
  [converte |-> TRUE,
   columns  |-> rotulos,
   rows     |-> [r \in 1..n |-> [j \in 1..w |-> CelulaDe(r, j)]]]

RotulosDe(w) ==
  {[j \in 1..w |-> RotInt(k + j - 1)] : k \in 0..MaxInicio}
    \cup {[j \in 1..w |-> RotTxt(Letras[j])]}

InitLargura ==
  /\ Parado
  /\ entrada \in UNION {{TabelaDe(w, n, rot) : n \in 1..MaxLinhas, rot \in RotulosDe(w)} :
                        w \in 1..MaxColunas}
  /\ saida = <<>>

\* lines 99-106 on the table: the frame, or the ValueError of line 106
NormalizaLargura ==
  /\ saida = <<>>
  /\ LET larga == AjustaLargura(ToPandas(entrada, 1))
     IN  saida' = <<IF PodeRenomear(larga, RotulosInteiros)
                      THEN [erro |-> "nenhum", df |-> Renomeia(larga, RotulosInteiros)]
                      ELSE [erro |-> "ValueError", df |-> larga]>>
  /\ UNCHANGED <<programa, entrada>>

NextLargura == NormalizaLargura

SpecLargura == InitLargura /\ [][NextLargura]_vars

\* what C5 says of the row r of the table: its first 7 cells, or all of them
\* followed by null sentinels
LinhaNormal(r) ==
  LET w == Len(entrada.columns)
  IN  [j \in 1..NUM_COLUNAS_ESPERADO |-> IF j <= w THEN entrada.rows[r][j] ELSE NaN]

\* C5: the grid of any non-empty table has exactly 7 columns after the width
\* normalization: the first 7 raw columns, or all of them, unchanged and in
\* order, followed by null sentinels, whatever labels the raw columns carry
C5_SeteColunas ==
  saida # <<>> =>
    /\ saida[1].erro = "nenhum"
    /\ Len(saida[1].df.columns) = NUM_COLUNAS_ESPERADO
    /\ Len(saida[1].df.rows) = Len(entrada.rows)
    /\ \A r \in DOMAIN entrada.rows : saida[1].df.rows[r].cels = LinhaNormal(r)

\* no raw label is an integer from the raw width to 6
SemColisao ==
  \A j \in DOMAIN entrada.columns :
    ~(/\ entrada.columns[j].tipo = "int"
      /\ entrada.columns[j].n >= Len(entrada.columns)
      /\ entrada.columns[j].n < NUM_COLUNAS_ESPERADO)

\* what holds of the width: the same, for the tables none of whose labels is
\* one the padding assigns to
C5_SeteColunasSemColisao == SemColisao => C5_SeteColunas

(***************************************************************************)
(* The Row Filter as a function: line 107 on every one-row table of at     *)
(* most MaxCelulas columns, after its width is normalized.                 *)
(***************************************************************************)
MaxCelulas == 3

CelulasFiltro ==
  { Cel(<<"A","n","a">>),
    Cel(<<"N","O","M","E">>),
    Cel(<<"D","e","o","d","a","t","a">>),
    Cel(<<"0","1","/","0","3","/","2","0","2","4">>),
    NaN,
    Obj }

InitFiltro ==
  /\ Parado
  /\ entrada \in SeqAte(CelulasFiltro, MaxCelulas) \ {<<>>}
  /\ saida = <<>>

\* lines 99-107 on the table whose only row is entrada
AplicaFiltro ==
  /\ saida = <<>>
  /\ LET tabela == [converte |-> TRUE,
                    columns  |-> [j \in DOMAIN entrada |-> RotInt(j - 1)],
                    rows     |-> <<entrada>>]
         larga  == Renomeia(AjustaLargura(ToPandas(tabela, 1)), RotulosInteiros)
     IN  saida' = <<[linha |-> larga.rows[1].cels,
                     ruido |-> row_contains_keywords(larga.rows[1].cels),
                     fica  |-> Len(FiltraLinhas(larga).rows) = 1]>>
  /\ UNCHANGED <<programa, entrada>>

NextFiltro == AplicaFiltro

SpecFiltro == InitFiltro /\ [][NextFiltro]_vars

Keywords == {keywords_to_check[k] : k \in DOMAIN keywords_to_check}

\* the cell is a text that is a keyword, whatever its case
IgualKeyword(c) == c.tipo = "str" /\ Lower(c.v) \in Keywords

\* the string form of the cell holds a keyword, whatever its case
ContemKeyword(c) == c.tipo # "obj" /\ \E kw \in Keywords : Contem(Lower(Str(c)), kw)

\* C6, as stated: a row with a cell equal to a keyword is noise; a row with
\* no cell equal to a keyword and a valid date is not
C6_IgualKeyword ==
  saida # <<>> =>
    LET linha == saida[1].linha
    IN  /\ (\E j \in DOMAIN linha : IgualKeyword(linha[j])) => saida[1].ruido
        /\ ((\A j \in DOMAIN linha : ~IgualKeyword(linha[j])) /\ DataExata(linha[Coluna("Data")]))
             => ~saida[1].ruido

\* C6, amended: a row with a cell whose string form holds a keyword, or
\* that has no string form, is noise and is dropped; a row whose cells all
\* have a string form that holds no keyword is not, and is kept
C6_ContemKeyword ==
  saida # <<>> =>
    LET linha == saida[1].linha
    IN  /\ (\E j \in DOMAIN linha : linha[j].tipo = "obj" \/ ContemKeyword(linha[j]))
             => saida[1].ruido /\ ~saida[1].fica
        /\ (\A j \in DOMAIN linha : linha[j].tipo # "obj" /\ ~ContemKeyword(linha[j]))
             => ~saida[1].ruido /\ saida[1].fica

\* a padded row with a valid date and no keyword has been kept
C6_Witness ==
  /\ saida # <<>>
  /\ Len(entrada) < NUM_COLUNAS_ESPERADO
  /\ saida[1].linha[NUM_COLUNAS_ESPERADO] = NaN
  /\ DataExata(saida[1].linha[Coluna("Data")])
  /\ ~saida[1].ruido
  /\ saida[1].fica

(***************************************************************************)
(* The records of the fallback as a function: lines 172-212 on every page  *)
(* text made of at most MaxPecas pieces.                                   *)
(***************************************************************************)
MaxPecas == 4

\* the length of the filler piece: a little less than the window
Enchimento == 390

PecasTexto ==
  { <<"A","n","a"," ">>,
    <<"0","8",":","0","0",":","0","0"," ","1","2",":","0","0",":","0","0"," ",
      "1","3",":","0","0",":","0","0"," ">>,
    <<"1","8",":","0","0",":","0","0"," ">>,
    <<"0","1","/","0","3","/","2","0","2","4"," ">>,
    <<"0","2","/","0","3","/","2","0","2","4","\n">>,
    [k \in 1..Enchimento |-> "x"] \o <<" ">> }

InitFallback ==
  /\ Parado
  /\ entrada \in {Junta(p) : p \in SeqAte(PecasTexto, MaxPecas)}
  /\ saida = <<>>

\* lines 172-212 on the text of the only page
ExtraiRegistros ==
  /\ saida = <<>>
  /\ LET text      == TextoLimpo(<<entrada>>)
         registros == Registros(text)
     IN  saida' = <<[text |-> text,
                     df   |-> IF registros = <<>> THEN None
                              ELSE FrameRegistros(registros)]>>
  /\ UNCHANGED <<programa, entrada>>

NextFallback == ExtraiRegistros

SpecFallback == InitFallback /\ [][NextFallback]_vars

\* the timestamps in the 400 characters before the date matched at i and in
\* the match, in text order
HorasNaJanela(text, i) == AchaHoras(SubSeq(text, IF i > 400 THEN i - 400 ELSE 1, i + 9))

\* C8: one record per date of the cleaned text, in order; its date is the
\* match; its time fields are the last 5 timestamps of the window in text
\* order, the first 4 in the 4 time columns and the 5th in Total; when there
\* are fewer than 5 they come first and '00:00:00' fills the rest
C8_Registros ==
  saida # <<>> =>
    LET text == saida[1].text
        ds   == AchaDatas(text)
        rows == saida[1].df.rows
    IN  /\ Len(rows) = Len(ds)
        /\ saida[1].df = None <=> ds = <<>>
        /\ \A k \in DOMAIN rows :
             LET hs == HorasNaJanela(text, ds[k])
                 n  == Len(hs)
             IN  /\ rows[k].idx = k - 1
                 /\ rows[k].cels[Coluna("Data")].v = SubSeq(text, ds[k], ds[k] + 9)
                 /\ \A j \in 1..5 :
                      rows[k].cels[Coluna("Data") + j].v =
                        IF n >= 5 THEN hs[n - 5 + j]
                        ELSE IF j <= n THEN hs[j]
                        ELSE <<"0","0",":","0","0",":","0","0">>

\* two records, one with fewer than 5 timestamps in its window, one with
\* more than 5
C8_Witness ==
  /\ saida # <<>>
  /\ saida[1].df # None
  /\ Len(saida[1].df.rows) >= 2
  /\ \E i \in Range(AchaDatas(saida[1].text)) :
       Len(HorasNaJanela(saida[1].text, i)) \in 1..4
  /\ \E i \in Range(AchaDatas(saida[1].text)) :
       Len(HorasNaJanela(saida[1].text, i)) > 5

(***************************************************************************)
(* The name cleaners as functions: every text made of at most MaxPartes    *)
(* pieces is cleaned, and the result cleaned again.                        *)
(***************************************************************************)
MaxPartes == 5

PartesNome ==
  { <<"A","n","a">>, <<"R","u","i">>, <<"D","o","m","i","n","g","o">>,
    <<"f","o","l","g","a">>, <<" ">>, <<".">> }

InitNome ==
  /\ Parado
  /\ entrada \in {Junta(p) : p \in SeqAte(PartesNome, MaxPartes)}
  /\ saida = <<>>

\* limpar_nome and the cleaning of nome_cand applied to the text, then to
\* their own results
LimparNome ==
  /\ Len(saida) < 2
  /\ LET x == IF saida = <<>> THEN [docling |-> entrada, pymupdf |-> entrada]
              ELSE saida[Len(saida)]
     IN  saida' = Append(saida, [docling |-> limpar_nome(x.docling),
                                 pymupdf |-> limpar_nome_cand(x.pymupdf)])
  /\ UNCHANGED <<programa, entrada>>

NextNome == LimparNome

SpecNome == InitNome /\ [][NextNome]_vars

\* C7: cleaning a name twice gives what cleaning it once gives, for the
\* cleaning of the structured extractor (limpar_nome) and for that of the
\* fallback extractor
C7_Idempotente ==
  Len(saida) = 2 => /\ saida[2].docling = saida[1].docling
                    /\ saida[2].pymupdf = saida[1].pymupdf

\* the part of C7 that is the fallback extractor's
C7_IdempotenteCand == Len(saida) = 2 => saida[2].pymupdf = saida[1].pymupdf

\* the Text Normalizer: limpar_nome without the removal of the annotation
Normaliza(texto) ==
  Strip(Colapsa(SubNaoPermitido(SubSeparador(texto))))

PalavrasNome == {<<"A","n","a">>, <<"R","u","i">>}

RECURSIVE JuntaCom(_, _)
JuntaCom(partes, sep) ==
  IF Len(partes) <= 1 THEN Junta(partes)
  ELSE Head(partes) \o sep \o JuntaCom(Tail(partes), sep)

\* names of one to three name words
NomesSimples == {JuntaCom(p, <<" ">>) : p \in SeqAte(PalavrasNome, 3) \ {<<>>}}

\* C10: a name made of name words, optionally followed by one annotation and
\* optional trailing whitespace, is cleaned to the Text Normalizer's output
\* for the name words alone
C10_SoAnotacao ==
  \A n \in NomesSimples, a \in Anotacoes \cup {<<>>}, e \in {<<>>, <<" ">>} :
    (saida # <<>> /\ entrada = n \o (IF a = <<>> THEN <<>> ELSE <<" ">> \o a) \o e)
      => saida[1].docling = Normaliza(n)

====
